---- MODULE Spec2Model ----
(***************************************************************************)
(* Build coordination, local docker build pipeline and tarball cache of    *)
(* pulumi-components, as state machines.                                    *)
(*                                                                          *)
(*   SpecCoord  BaseDockerImage.constructor and the static AwaitingOutput   *)
(*              table, with the facade DockerImage on top of it             *)
(*   SpecLocal  one local build: LocalDockerImage._checkImage and the       *)
(*              dynamic provider's createBuild                              *)
(*   SpecRemote one remote build: RemoteDockerImage._checkImage and the      *)
(*              CloudBuild provider's createBuild                           *)
(*   SpecRef    one `new DockerImage`: executor selection, version tag and  *)
(*              image reference                                             *)
(*   SpecArch   createTarballFromDir / createTarballFromGit and the         *)
(*              DirTarballArchive / GitTarballArchive objects over the      *)
(*              per-user cache directory                                    *)
(*   SpecShared two processes running the archiver for one uniqueID         *)
(*   SpecContext the remote executor's build-context archive over several   *)
(*              runs of the program                                         *)
(***************************************************************************)
EXTENDS Integers, Sequences, FiniteSets, TLC

(***************************************************************************)
(* Bounds of the model.                                                    *)
(***************************************************************************)
\* number of `new DockerImage / LocalDockerImage / RemoteDockerImage` calls
MaxRequests == 3
\* awaited steps an abstract _checkImage promise passes before it settles
PipelineSteps == 1
\* additional tags of a local build (input.tags)
MaxTags == 1
\* archiver invocations (tarball constructors) of the process
MaxArchives == 4
\* clean() calls on archive objects
MaxCleans == 2

VARIABLES
    \* ---- coordinator (BaseDockerImage) ----
    AwaitingOutput,     \* static table: imageURI -> index into builds
    builds,             \* one record per _checkImage call, its promise
    instances,          \* the constructed image objects, in order
    \* ---- local executor ----
    impl,               \* "checkImage" (LocalDockerImage) | "createBuild"
    input,              \* the inputs of the build
    pc,                 \* the awaited operation the build is suspended on
    tagIdx,             \* loop index of the additional-tags loop
    execLog,            \* promisifyExec events: start / close of each tool
    toClean,            \* toCleanDirectories / toClean
    disk,               \* directories and files that exist
    made,               \* temporary directories this build created
    extract,            \* the un-awaited `tar -zxf` child
    outcome,            \* exit status recorded per pipeline step
    result,             \* settled value of the build's promise
    \* ---- tarball cache ----
    paths,              \* cache directory: path -> inode
    inodes,             \* inode -> content and provenance
    arch,               \* the running archiver invocation
    archives,           \* constructed tarball objects
    calls,              \* finished archiver invocations (history)
    toolRuns,           \* number of archive-tool runs so far
    uuids,              \* crypto.randomUUID() values handed out
    srcVersion,         \* generation of the source directory's contents
    \* ---- remote executor and the CloudBuild provider ----
    rinput,             \* the inputs of the remote build
    rpc,                \* the awaited operation the remote build is suspended on
    steps,              \* the step list of the job, as assembled so far
    apiCalls,           \* Secret Manager / Cloud Build calls made, in order
    secretExists,       \* the temporary Secret Manager entry exists
    cleanupFunctions,   \* createBuild's list of cleanup closures
    error,              \* createBuild's `error` variable
    retval,             \* createBuild's `retval` variable
    image,              \* settled value of the promise the remote build gives
    assetCleaned        \* RemoteDockerImage.clean() has run

coordVars == <<AwaitingOutput, builds, instances>>
localVars == <<impl, input, pc, tagIdx, execLog, toClean, disk, made, extract,
               outcome, result>>
archVars  == <<paths, inodes, arch, archives, calls, toolRuns, uuids, srcVersion>>
remoteVars == <<rinput, rpc, steps, apiCalls, secretExists, cleanupFunctions,
                error, retval, image, assetCleaned>>
vars == <<coordVars, localVars, archVars, remoteVars>>

(***************************************************************************)
(* BaseDockerImage: reference resolution and the AwaitingOutput table.      *)
(***************************************************************************)
RegistryUrls == {"gcr.io/acme"}
ImageNames == {"svc"}
PlainVersions == {"1.2.3", "2.0"}
\* what distinguishes two requests besides the reference (build args, ...)
Variants == {"argsA", "argsB"}

\* input.registryUrl.endsWith('/')
EndsWithSlash(url) == url \in {"gcr.io/acme/"}

\* the image reference the constructor resolves for a PLAIN versioning
ImageURI(in) ==
    LET forwardSlash == IF EndsWithSlash(in.registryUrl) THEN "" ELSE "/"
        imageBaseName == in.registryUrl \o forwardSlash \o in.imageName
    IN  imageBaseName \o ":" \o in.versioning.value

CoordInputs ==
    [registryUrl : RegistryUrls, imageName : ImageNames,
     versioning : [type : {"PLAIN"}, value : PlainVersions],
     variant : Variants]

\* the pending promise an executor's _checkImage returns
NewBuild(kind, in) ==
    [kind |-> kind, imageURI |-> ImageURI(in), variant |-> in.variant,
     state |-> "pending", steps |-> 0]

\* _checkImage is called whether or not the table has the key
ReserveAlways(kind, in) ==
    /\ builds' = Append(builds, NewBuild(kind, in))
    /\ AwaitingOutput' =
         [k \in DOMAIN AwaitingOutput \cup {ImageURI(in)} |->
            IF k = ImageURI(in) THEN Len(builds) + 1 ELSE AwaitingOutput[k]]

\* the table is looked up by the reference and the other inputs together
ReserveByInputs(kind, in) ==
    IF \/ ImageURI(in) \notin DOMAIN AwaitingOutput
       \/ builds[AwaitingOutput[ImageURI(in)]].variant # in.variant
    THEN /\ builds' = Append(builds, NewBuild(kind, in))
         /\ AwaitingOutput' =
              [k \in DOMAIN AwaitingOutput \cup {ImageURI(in)} |->
                 IF k = ImageURI(in) THEN Len(builds) + 1 ELSE AwaitingOutput[k]]
    ELSE UNCHANGED <<builds, AwaitingOutput>>

\* if (AwaitingOutput[imageURI] === undefined) { imageInfo = _checkImage(); ... }
Reserve(kind, in) ==
    IF ImageURI(in) \notin DOMAIN AwaitingOutput
    THEN /\ builds' = Append(builds, NewBuild(kind, in))
         /\ AwaitingOutput' =
              [k \in DOMAIN AwaitingOutput \cup {ImageURI(in)} |->
                 IF k = ImageURI(in) THEN Len(builds) + 1 ELSE AwaitingOutput[k]]
    ELSE UNCHANGED <<builds, AwaitingOutput>>

\* BaseDockerImage.constructor, entered from the subclass `kind`
BaseConstructor(kind, in) ==
    /\ Len(instances) < MaxRequests
    /\ Reserve(kind, in)
    /\ instances' = Append(instances,
         [kind |-> kind, imageURI |-> ImageURI(in), variant |-> in.variant,
          uri |-> AwaitingOutput'[ImageURI(in)],
          started |-> ImageURI(in) \notin DOMAIN AwaitingOutput,
          observed |-> IF ImageURI(in) \in DOMAIN AwaitingOutput
                       THEN builds[AwaitingOutput[ImageURI(in)]].state
                       ELSE "none"])
    /\ UNCHANGED <<localVars, archVars, remoteVars>>

NewLocalDockerImage == \E in \in CoordInputs : BaseConstructor("local", in)

NewRemoteDockerImage == \E in \in CoordInputs : BaseConstructor("remote", in)

\* the facade: remote exactly when all three remote fields are in the input
NewDockerImage ==
    \E in \in CoordInputs, sa \in BOOLEAN, bucket \in BOOLEAN, provider \in BOOLEAN :
        IF sa /\ bucket /\ provider
        THEN BaseConstructor("remote", in)
        ELSE BaseConstructor("local", in)

\* the builds take their steps one build after the other
CheckImageStepInTurn ==
    \E b \in DOMAIN builds :
        /\ builds[b].state = "pending"
        /\ builds[b].steps < PipelineSteps
        /\ \A a \in 1..(b - 1) : builds[a].state # "pending"
        /\ builds' = [builds EXCEPT ![b].steps = @ + 1]
        /\ UNCHANGED <<AwaitingOutput, instances, localVars, archVars, remoteVars>>

\* one awaited step of a pending _checkImage finishes with exit code 0
CheckImageStep ==
    \E b \in DOMAIN builds :
        /\ builds[b].state = "pending"
        /\ builds[b].steps < PipelineSteps
        /\ builds' = [builds EXCEPT ![b].steps = @ + 1]
        /\ UNCHANGED <<AwaitingOutput, instances, localVars, archVars, remoteVars>>

\* the promise of _checkImage resolves with the digest of what it built
CheckImageResolve ==
    \E b \in DOMAIN builds :
        /\ builds[b].state = "pending"
        /\ builds[b].steps = PipelineSteps
        /\ builds' = [builds EXCEPT ![b].state = "resolved"]
        /\ UNCHANGED <<AwaitingOutput, instances, localVars, archVars, remoteVars>>

\* a rejected build is dropped from the table
SettleRejectedEvicting(b) ==
    /\ builds' = [builds EXCEPT ![b].state = "rejected"]
    /\ AwaitingOutput' =
         [k \in DOMAIN AwaitingOutput \ {builds[b].imageURI} |-> AwaitingOutput[k]]

\* a rejected build leaves the table as it is
SettleRejected(b) ==
    /\ builds' = [builds EXCEPT ![b].state = "rejected"]
    /\ UNCHANGED AwaitingOutput

\* an awaited step fails: the promise of _checkImage rejects
CheckImageReject ==
    \E b \in DOMAIN builds :
        /\ builds[b].state = "pending"
        /\ SettleRejected(b)
        /\ UNCHANGED <<instances, localVars, archVars, remoteVars>>

IdleRemote ==
    /\ rinput = << >> /\ rpc = "idle" /\ steps = << >> /\ apiCalls = << >>
    /\ secretExists = FALSE /\ cleanupFunctions = 0 /\ error = ""
    /\ retval = [set |-> FALSE, results |-> FALSE, images |-> << >>]
    /\ image = [type |-> "none", error |-> "", value |-> << >>]
    /\ assetCleaned = FALSE

IdleLocal ==
    /\ impl = "none" /\ input = << >> /\ pc = "idle" /\ tagIdx = 0
    /\ execLog = << >> /\ toClean = << >> /\ disk = {} /\ made = {}
    /\ extract = "none" /\ outcome = << >>
    /\ result = [type |-> "none", what |-> "none"]

IdleArch ==
    /\ paths = << >> /\ inodes = << >> /\ arch = << >>
    /\ archives = << >> /\ calls = << >> /\ toolRuns = 0 /\ uuids = 0
    /\ srcVersion = 0

InitCoord ==
    /\ AwaitingOutput = << >>
    /\ builds = << >>
    /\ instances = << >>
    /\ IdleLocal
    /\ IdleArch
    /\ IdleRemote

NextCoord ==
    \/ NewLocalDockerImage
    \/ NewRemoteDockerImage
    \/ NewDockerImage
    \/ CheckImageStep
    \/ CheckImageResolve
    \/ CheckImageReject

SpecCoord == InitCoord /\ [][NextCoord]_vars

(***************************************************************************)
(* The local executor: LocalDockerImage._checkImage (impl "checkImage") and *)
(* the dynamic provider's createBuild (impl "createBuild").  The build is   *)
(* suspended on one awaited operation at a time (pc).  An action is the     *)
(* completion of that operation together with the synchronous code that     *)
(* follows it up to the next await; that code is written as functions on    *)
(* the record of the executor's state.                                      *)
(***************************************************************************)
Impls == {"checkImage", "createBuild"}

\* input.buildDirectory: a path, or a GIT / DIRECTORY source to archive
BuildDirectoryKinds == {"string", "GIT", "DIRECTORY"}

LocalInputs(i) ==
    [cache : BOOLEAN, secrets : BOOLEAN, ntags : 0..MaxTags,
     buildDirectory : IF i = "checkImage" THEN BuildDirectoryKinds ELSE {"string"},
     skipClean : IF i = "checkImage" THEN {FALSE} ELSE BOOLEAN]

\* the temporary directories of mkdtempSync, and the caller's directory
TempDirs == {"tmpDir", "secretsDir"}
Dirs == TempDirs \cup {"callerDir"}

\* what the synchronous code after an event may meet: whether the tarball
\* constructor returns, whether the secret values resolve, whether the
\* secrets file can be written, and the directory whose rmSync throws
Choices ==
    [archive : BOOLEAN, resolved : BOOLEAN, written : BOOLEAN,
     bad : Dirs \cup {"none"}]

ExitCodes == {0, 1}

Cur ==
    [pc |-> pc, tagIdx |-> tagIdx, execLog |-> execLog, toClean |-> toClean,
     disk |-> disk, made |-> made, extract |-> extract, outcome |-> outcome,
     result |-> result]

Set(st) ==
    /\ pc' = st.pc
    /\ tagIdx' = st.tagIdx
    /\ execLog' = st.execLog
    /\ toClean' = st.toClean
    /\ disk' = st.disk
    /\ made' = st.made
    /\ extract' = st.extract
    /\ outcome' = st.outcome
    /\ result' = st.result
    /\ UNCHANGED <<impl, input, coordVars, archVars, remoteVars>>

\* bookkeeping: the exit status a step ended with
Note(st, step, code) == [st EXCEPT !.outcome = (step :> code) @@ @]

\* promisifyExec: spawn the child, then suspend until its close event
Spawn(st, cmd, arg, at) ==
    [st EXCEPT !.execLog = Append(@, [ev |-> "start", cmd |-> cmd, arg |-> arg]),
               !.pc = at]

\* the close event of the child spawned last
Close(st, cmd, arg, code) ==
    Note([st EXCEPT !.execLog = Append(@, [ev |-> "close", cmd |-> cmd, arg |-> arg])],
         st.pc, code)

\* index of the first entry of toClean whose removal throws, 0 when none does
FirstBad(st, bad) ==
    IF \E j \in 1..Len(st.toClean) : st.toClean[j] = bad
    THEN CHOOSE j \in 1..Len(st.toClean) :
            /\ st.toClean[j] = bad
            /\ \A i \in 1..(j - 1) : st.toClean[i] # bad
    ELSE 0

\* the finally block: rmSync(dir, { recursive: true, force: true }) for each
\* entry in order; an rmSync that throws ends the loop and replaces `res`
Finally(st, res, bad) ==
    LET k == FirstBad(st, bad)
        gone == IF k = 0 THEN {st.toClean[j] : j \in 1..Len(st.toClean)}
                ELSE {st.toClean[j] : j \in 1..(k - 1)}
    IN  [Note(st, "clean", IF k = 0 THEN 0 ELSE 1) EXCEPT
            !.disk = @ \ gone,
            !.result = IF k = 0 THEN res ELSE [type |-> "error", what |-> "clean"],
            !.pc = "done"]

\* catch (buildError) { console.log(...); throw(buildError) } finally { ... }
Fail(st, step, ch) ==
    Finally(Note(st, step, 1), [type |-> "error", what |-> step], ch.bad)

\* the directory handed to `docker build`
BuildContext == IF input.buildDirectory = "string" THEN "callerDir" ELSE "tmpDir"

\* await promisifyExec('docker', ['build', ...buildArgs, buildDirectory], env)
SpawnBuild(st) ==
    Spawn(Note(st, "extractAtBuild", st.extract), "build", BuildContext, "build")

\* createBuild: if (inputs.secretContents) { mkdtempSync; writeFileSync;
\* toClean.push(secretsDir) }, then docker build, without an await between
SecretsSync(st, ch) ==
    IF ~input.secrets
    THEN SpawnBuild(st)
    ELSE LET dir == [st EXCEPT !.disk = @ \cup {"secretsDir"},
                               !.made = @ \cup {"secretsDir"}]
         IN  IF ch.written
             THEN SpawnBuild([Note(dir, "writeSecrets", 0) EXCEPT
                                 !.toClean = Append(@, "secretsDir")])
             ELSE Fail(dir, "writeSecrets", ch)

\* getBuildDirectory up to its first await: a path is returned as it is, a
\* GIT / DIRECTORY source is archived by the tarball constructor
GetBuildDirectory(st, ch) ==
    IF input.buildDirectory = "string"
    THEN [st EXCEPT !.pc = "gotBuildDirectory"]
    ELSE IF ch.archive
         THEN [Note(st, "archive", 0) EXCEPT
                  !.disk = @ \cup {IF input.buildDirectory = "GIT"
                                   THEN "gitArchive" ELSE "dirArchive"},
                  !.pc = "tarballPath"]
         ELSE Fail(st, "archive", ch)

\* what follows the best-effort steps
AfterPull(st, ch) ==
    IF impl = "createBuild" THEN SecretsSync(st, ch) ELSE GetBuildDirectory(st, ch)

\* the stale-image removal failed and the failure is not swallowed
AfterRmAborting(st, code, ch) ==
    IF code # 0 THEN Fail(st, "rm", ch)
    ELSE IF input.cache THEN Spawn(st, "pull", "cacheTag", "pull")
    ELSE AfterPull(st, ch)

\* try { await docker image rm } catch { }; if (imageCache) { try { pull ...
AfterRm(st, code, ch) ==
    IF input.cache THEN Spawn(st, "pull", "cacheTag", "pull") ELSE AfterPull(st, ch)

RmClose ==
    /\ pc = "rm"
    /\ \E code \in ExitCodes, ch \in Choices :
          Set(AfterRm(Close(Cur, "image rm", "ref", code), code, ch))

\* try { await docker pull } catch { }
PullClose ==
    /\ pc = "pull"
    /\ \E code \in ExitCodes, ch \in Choices :
          Set(AfterPull(Close(Cur, "pull", "cacheTag", code), ch))

\* getBuildDirectory after `await tarball.path`: mkdtempSync, push, and the
\* spawn of `tar -zxf`, which nothing waits for
TarballPath ==
    /\ pc = "tarballPath"
    /\ Set([Cur EXCEPT !.disk = @ \cup {"tmpDir"},
                       !.made = @ \cup {"tmpDir"},
                       !.toClean = Append(@, "tmpDir"),
                       !.extract = "running",
                       !.pc = "gotBuildDirectory"])

\* the close event of the `tar -zxf` child; there is no listener for it
ExtractClose ==
    /\ extract = "running"
    /\ \E code \in ExitCodes :
          /\ extract' = IF code = 0 THEN "ok" ELSE "failed"
          /\ UNCHANGED <<impl, input, pc, tagIdx, execLog, toClean, disk, made,
                         outcome, result, coordVars, archVars, remoteVars>>

\* _checkImage after `await this.getBuildDirectory(...)`
GotBuildDirectory ==
    /\ pc = "gotBuildDirectory"
    /\ IF input.secrets
       THEN Set([Cur EXCEPT !.disk = @ \cup {"secretsDir"},
                            !.made = @ \cup {"secretsDir"},
                            !.pc = "resolveSecrets"])
       ELSE Set(SpawnBuild(Cur))

\* _checkImage after `await this.resolveSecretsObject(input.secrets)`
AfterSecrets(st, ch) ==
    IF ~ch.resolved THEN Fail(st, "resolveSecrets", ch)
    ELSE IF ~ch.written THEN Fail(Note(st, "resolveSecrets", 0), "writeSecrets", ch)
    ELSE SpawnBuild([Note(Note(st, "resolveSecrets", 0), "writeSecrets", 0) EXCEPT
                        !.toClean = Append(@, "secretsDir")])

SecretsResolved ==
    /\ pc = "resolveSecrets"
    /\ \E ch \in Choices : Set(AfterSecrets(Cur, ch))

\* the next step once the primary tag and `n` additional tags are pushed
NextTagOrInspectHasty(st, n) ==
    IF n < input.ntags
    THEN Spawn([st EXCEPT !.tagIdx = n + 1], "image push", n + 1, "pushTag")
    ELSE Spawn([st EXCEPT !.tagIdx = n], "image inspect", "ref", "inspect")

NextTagOrInspect(st, n) ==
    IF n < input.ntags
    THEN Spawn([st EXCEPT !.tagIdx = n + 1], "tag", n + 1, "tag")
    ELSE Spawn([st EXCEPT !.tagIdx = n], "image inspect", "ref", "inspect")

BuildClose ==
    /\ pc = "build"
    /\ \E code \in ExitCodes, ch \in Choices :
          LET st == Close(Cur, "build", BuildContext, code)
          IN  Set(IF code # 0 THEN Fail(st, "build", ch)
                  ELSE Spawn(st, "image push", "ref", "push"))

PushClose ==
    /\ pc = "push"
    /\ \E code \in ExitCodes, ch \in Choices :
          LET st == Close(Cur, "image push", "ref", code)
          IN  Set(IF code # 0 THEN Fail(st, "push", ch)
                  ELSE NextTagOrInspect(st, 0))

TagClose ==
    /\ pc = "tag"
    /\ \E code \in ExitCodes, ch \in Choices :
          LET st == Close(Cur, "tag", tagIdx, code)
          IN  Set(IF code # 0 THEN Fail(st, "tag", ch)
                  ELSE Spawn(st, "image push", tagIdx, "pushTag"))

TagPushClose ==
    /\ pc = "pushTag"
    /\ \E code \in ExitCodes, ch \in Choices :
          LET st == Close(Cur, "image push", tagIdx, code)
          IN  Set(IF code # 0 THEN Fail(st, "pushTag", ch)
                  ELSE NextTagOrInspect(st, tagIdx))

\* what `docker image inspect` printed when it exited 0: a first RepoDigests
\* entry, or none
InspectOutputs == {"digest", "undefined"}

\* imageInfo[0].RepoDigests[0]; createBuild throws unless it is a string
AfterInspect(st, out, ch) ==
    IF out = "undefined" /\ impl = "createBuild"
    THEN Fail(st, "digest", ch)
    ELSE Finally(st, [type |-> "value", what |-> out], ch.bad)

InspectClose ==
    /\ pc = "inspect"
    /\ \E code \in ExitCodes, out \in InspectOutputs, ch \in Choices :
          LET st == Close(Cur, "image inspect", "ref", code)
          IN  Set(IF code # 0 THEN Fail(st, "inspect", ch)
                  ELSE AfterInspect(st, out, ch))

IdleCoord ==
    /\ AwaitingOutput = << >> /\ builds = << >> /\ instances = << >>

\* the executor has been entered and has spawned `docker image rm <ref>`
InitLocal ==
    /\ impl \in Impls
    /\ input \in LocalInputs(impl)
    /\ pc = "rm"
    /\ tagIdx = 0
    /\ execLog = <<[ev |-> "start", cmd |-> "image rm", arg |-> "ref"]>>
    /\ toClean = IF impl = "createBuild" /\ ~input.skipClean
                 THEN <<"callerDir">> ELSE << >>
    /\ disk = {"callerDir"}
    /\ made = {}
    /\ extract = "none"
    /\ outcome = << >>
    /\ result = [type |-> "none", what |-> "none"]
    /\ IdleCoord
    /\ IdleArch
    /\ IdleRemote

NextLocal ==
    \/ RmClose
    \/ PullClose
    \/ TarballPath
    \/ ExtractClose
    \/ GotBuildDirectory
    \/ SecretsResolved
    \/ BuildClose
    \/ PushClose
    \/ TagClose
    \/ TagPushClose
    \/ InspectClose

SpecLocal == InitLocal /\ [][NextLocal]_vars

(***************************************************************************)
(* The tarball cache: createTarballFromDir, createTarballFromGit and the    *)
(* archive objects built on them.  The cache directory maps paths to        *)
(* inodes; an archive tool writes the inode it opened.  The tools run under *)
(* spawnSync, so a process does nothing else while its archiver runs, but   *)
(* the disk passes through the states in between.                           *)
(***************************************************************************)
ArchProcs == {"p1", "p2"}

SourceDirs == {"/src"}
\* caller-supplied cache ids; "undefined" stands for an omitted argument
CacheIDs == {"undefined", "k1"}
\* commitID arguments: the default HEAD, a ref, and one git cannot resolve
CommitIDs == {"HEAD", "c1", "nope"}

\* crypto.randomUUID(): the n-th value drawn, never drawn before
RandomUUID(n) == "uuid-" \o ToString(n)

\* utils.hash(input, 32)
Hash(x) == "sha256/32(" \o x \o ")"

\* `git log --max-count=1 --format=%H HEAD .` / `git rev-parse <commitID>`
ResolveCommit(commitID) ==
    IF commitID \in {"HEAD", "c1"} THEN "c1" ELSE ""

\* `${dirHash}-${cacheID}` and `${dirHash}-${commit}`
DirUniqueID(dir, id) == Hash(dir) \o "-" \o Hash(id)
GitUniqueID(dir, commit) == Hash(dir) \o "-" \o commit

\* path.join(tarballDir, `${uniqueID}.tar.gz`) and `${tarballPath}.new`
TarballPath_(uid) == "~/.cache/pulumi-tarballs/" \o uid \o ".tar.gz"
TarballTmpPath(uid) == TarballPath_(uid) \o ".new"

\* what is at a path: the inode and the generation of its content
Entry(ps, ins, path) ==
    IF path \in DOMAIN ps
    THEN [inode |-> ps[path], version |-> ins[ps[path]].version]
    ELSE [inode |-> 0, version |-> 0]

\* fs.unlinkSync(path), its error ignored
Unlink(ps, path) == [q \in DOMAIN ps \ {path} |-> ps[q]]

\* the archive tool opens its output: an existing file is truncated in
\* place, a missing one is created
OpenForWrite(ps, ins, path, call) ==
    IF path \in DOMAIN ps
    THEN [paths |-> ps,
          inodes |-> [ins EXCEPT ![ps[path]] =
                        [content |-> "partial", version |-> @.version + 1,
                         createCode |-> -1, listed |-> FALSE, by |-> call,
                         from |-> srcVersion]]]
    ELSE [paths |-> (path :> (Len(ins) + 1)) @@ ps,
          inodes |-> Append(ins, [content |-> "partial", version |-> 1,
                                  createCode |-> -1, listed |-> FALSE, by |-> call,
                                  from |-> srcVersion])]

\* the archive is made anew whether or not it is cached
ReuseNever(path) == FALSE

\* if (fs.existsSync(tarballPath)) { return ... }

Reuse(path) == path \in DOMAIN paths

\* number of the archiver invocation that starts now
ThisCall == Len(calls) + 1

\* the invocation returns or throws: it is added to the history
Finish(p, how) ==
    /\ calls' = Append(calls,
         [proc |-> p, mode |-> arch[p].mode, uid |-> arch[p].uid,
          existed |-> arch[p].existed, how |-> how, runs |-> arch[p].runs,
          srcVersion |-> srcVersion, before |-> arch[p].before,
          after |-> Entry(paths', inodes', TarballPath_(arch[p].uid))])
    /\ arch' = [arch EXCEPT ![p] = [pc |-> "idle"]]

\* the constructor's `super(file)` and field assignments after a return
NewArchive(p, mode, uid, shouldClean, explicit, createdHere) ==
    archives' = Append(archives,
        [proc |-> p, mode |-> mode, path |-> TarballPath_(uid),
         shouldClean |-> shouldClean, explicit |-> explicit,
         createdHere |-> createdHere, cleans |-> 0])

\* the archiver up to the spawn of its tool, for an output that is missing
StartCreate(p, mode, uid, unlinkFirst, shouldClean) ==
    LET tmp == TarballTmpPath(uid)
        ps == IF unlinkFirst THEN Unlink(paths, tmp) ELSE paths
        opened == OpenForWrite(ps, inodes, tmp, ThisCall)
    IN  /\ paths' = opened.paths
        /\ inodes' = opened.inodes
        /\ toolRuns' = toolRuns + 1
        /\ arch' = [arch EXCEPT ![p] =
             [pc |-> "creating", mode |-> mode, uid |-> uid, runs |-> 1,
              shouldClean |-> shouldClean, inode |-> opened.paths[tmp],
              existed |-> TarballPath_(uid) \in DOMAIN paths,
              before |-> Entry(paths, inodes, TarballPath_(uid))]]
        /\ UNCHANGED <<archives, calls>>

\* the archiver returns the cached file without running a tool
ReturnCached(p, mode, uid, explicit) ==
    /\ calls' = Append(calls,
         [proc |-> p, mode |-> mode, uid |-> uid, existed |-> TRUE,
          how |-> "returned", runs |-> 0, srcVersion |-> srcVersion,
          before |-> Entry(paths, inodes, TarballPath_(uid)),
          after |-> Entry(paths, inodes, TarballPath_(uid))])
    /\ NewArchive(p, mode, uid, FALSE, explicit, FALSE)
    /\ UNCHANGED <<paths, inodes, arch, toolRuns>>

\* createTarballFromDir(dir, cacheID) to the spawn of tar
CreateTarballFromDir(p, dir, cacheID) ==
    LET random == cacheID = "undefined"
        id == IF random THEN RandomUUID(uuids + 1) ELSE cacheID
        uid == DirUniqueID(dir, id)
    IN  /\ uuids' = IF random THEN uuids + 1 ELSE uuids
        /\ IF Reuse(TarballPath_(uid))
           THEN ReturnCached(p, "dir", uid, ~random)
           ELSE StartCreate(p, "dir", uid, FALSE, random)

\* new DirTarballArchive(dir, cacheID)
BeginDir(p) ==
    /\ arch[p].pc = "idle"
    /\ Len(calls) < MaxArchives
    /\ \E dir \in SourceDirs, cacheID \in CacheIDs :
          CreateTarballFromDir(p, dir, cacheID)
    /\ UNCHANGED <<srcVersion, coordVars, localVars, remoteVars>>

\* createTarballFromGit(dir, commitID) to the spawn of git archive
CreateTarballFromGit(p, dir, commitID) ==
    LET commit == ResolveCommit(commitID)
        uid == GitUniqueID(dir, commit)
    IN  IF commit = ""
        THEN /\ calls' = Append(calls,
                  [proc |-> p, mode |-> "git", uid |-> uid, existed |-> FALSE,
                   how |-> "noCommit", runs |-> 0, srcVersion |-> srcVersion,
                   before |-> Entry(paths, inodes, TarballPath_(uid)),
                   after |-> Entry(paths, inodes, TarballPath_(uid))])
             /\ UNCHANGED <<paths, inodes, arch, archives, toolRuns>>
        ELSE IF Reuse(TarballPath_(uid))
             THEN ReturnCached(p, "git", uid, TRUE)
             ELSE StartCreate(p, "git", uid, TRUE, FALSE)

\* new GitTarballArchive(dir, commitID): createTarballFromGit to its spawn
BeginGit(p) ==
    /\ arch[p].pc = "idle"
    /\ Len(calls) < MaxArchives
    /\ \E dir \in SourceDirs, commitID \in CommitIDs :
          CreateTarballFromGit(p, dir, commitID)
    /\ UNCHANGED <<uuids, srcVersion, coordVars, localVars, remoteVars>>

\* what the tool left in its output file when it exited
Written(code) == IF code = 0 THEN {"complete", "corrupt"} ELSE {"partial"}

\* the tools of other processes that have the inode open for writing
OtherWriters(p, inode) ==
    {q \in ArchProcs \ {p} : arch[q].pc = "creating" /\ arch[q].inode = inode}

\* what is in the inode when the tool of p exits: a file that another tool
\* truncated and is still writing holds whatever the two have written
WrittenBy(p, code) ==
    IF OtherWriters(p, arch[p].inode) = {} THEN Written(code)
    ELSE {"complete", "corrupt", "partial"}

\* `tar -ztf <tmp>`: 0 exactly for a file that is there and lists
ListCode(ps, ins, path) ==
    IF path \in DOMAIN ps /\ ins[ps[path]].content = "complete" THEN 0 ELSE 1

\* the create tool exits; `if (createResults.status !== 0) throw`, else the
\* listing is spawned
CreateExit(p) ==
    /\ arch[p].pc = "creating"
    /\ \E code \in ExitCodes :
       \E content \in WrittenBy(p, code) :
          /\ inodes' = [inodes EXCEPT ![arch[p].inode].content = content,
                                      ![arch[p].inode].createCode = code]
          /\ paths' = paths
          /\ IF code # 0
             THEN /\ Finish(p, "createFailed")
                  /\ UNCHANGED toolRuns
             ELSE /\ arch' = [arch EXCEPT ![p].pc = "listing"]
                  /\ toolRuns' = toolRuns + 1
                  /\ UNCHANGED calls
    /\ UNCHANGED <<archives, uuids, srcVersion, coordVars, localVars, remoteVars>>

\* the rename into place without the status test before it
RenameUnchecked(ps, uid, code) ==
    [q \in (DOMAIN ps \ {TarballTmpPath(uid)}) \cup {TarballPath_(uid)} |->
        IF q = TarballPath_(uid) THEN ps[TarballTmpPath(uid)] ELSE ps[q]]

\* `if (checkResults.status !== 0) throw`, then the rename into place
Rename(ps, uid, code) ==
    IF code # 0 THEN ps
    ELSE [q \in (DOMAIN ps \ {TarballTmpPath(uid)}) \cup {TarballPath_(uid)} |->
            IF q = TarballPath_(uid) THEN ps[TarballTmpPath(uid)] ELSE ps[q]]

\* the listing exits: the archiver throws, or renames and returns
ListExit(p) ==
    /\ arch[p].pc = "listing"
    /\ LET uid == arch[p].uid
           tmp == TarballTmpPath(uid)
           code == ListCode(paths, inodes, tmp)
       IN  /\ inodes' = [inodes EXCEPT ![paths[tmp]].listed = (code = 0)]
           /\ paths' = Rename(paths, uid, code)
           /\ IF code # 0
              THEN /\ Finish(p, "listFailed")
                   /\ UNCHANGED archives
              ELSE /\ Finish(p, "created")
                   /\ NewArchive(p, arch[p].mode, uid, arch[p].shouldClean,
                                 ~arch[p].shouldClean, TRUE)
    /\ UNCHANGED <<toolRuns, uuids, srcVersion, coordVars, localVars, remoteVars>>

\* clean() calls made so far, over all archive objects
RECURSIVE CleansUpTo(_)
CleansUpTo(n) == IF n = 0 THEN 0 ELSE archives[n].cleans + CleansUpTo(n - 1)

\* DirTarballArchive.clean without the shouldClean test
CleanDirAlways(a) ==
    /\ paths' = Unlink(paths, archives[a].path)
    /\ archives' = [archives EXCEPT ![a].shouldClean = FALSE, ![a].cleans = @ + 1]

\* DirTarballArchive.clean
CleanDir(a) ==
    IF ~archives[a].shouldClean
    THEN /\ archives' = [archives EXCEPT ![a].cleans = @ + 1]
         /\ UNCHANGED paths
    ELSE /\ paths' = Unlink(paths, archives[a].path)
         /\ archives' = [archives EXCEPT ![a].shouldClean = FALSE, ![a].cleans = @ + 1]

\* archive.clean(); GitTarballArchive.clean does nothing
CleanArchive(p) ==
    /\ arch[p].pc = "idle"
    /\ \E a \in DOMAIN archives :
          /\ archives[a].proc = p
          /\ CleansUpTo(Len(archives)) < MaxCleans
          /\ IF archives[a].mode = "dir"
             THEN CleanDir(a)
             ELSE /\ archives' = [archives EXCEPT ![a].cleans = @ + 1]
                  /\ UNCHANGED paths
    /\ UNCHANGED <<inodes, arch, calls, toolRuns, uuids, srcVersion, coordVars,
                   localVars, remoteVars>>

\* an empty cache directory and no archiver running
InitArch ==
    /\ paths = << >>
    /\ inodes = << >>
    /\ arch = [p \in ArchProcs |-> [pc |-> "idle"]]
    /\ archives = << >>
    /\ calls = << >>
    /\ toolRuns = 0
    /\ uuids = 0
    /\ srcVersion = 0
    /\ IdleCoord
    /\ IdleLocal
    /\ IdleRemote

\* one process: its archiver invocations follow one another
NextArch ==
    \/ BeginDir("p1")
    \/ BeginGit("p1")
    \/ CreateExit("p1")
    \/ ListExit("p1")
    \/ CleanArchive("p1")

SpecArch == InitArch /\ [][NextArch]_vars

(***************************************************************************)
(* Two processes of the same user run the archiver for one uniqueID.  They  *)
(* share the cache directory, and a process is not atomic towards the       *)
(* other: the listing and the rename after it are two system calls, and the *)
(* other process may run between them.                                      *)
(***************************************************************************)
\* the cache id and the commit both processes are given
SharedCacheID == "k1"
SharedCommitID == "c1"

\* archiver invocations that have started
Invocations == Len(calls) + Cardinality({q \in ArchProcs : arch[q].pc # "idle"})

\* process p calls createTarballFromDir for the shared cache id
SharedDir(p) ==
    /\ arch[p].pc = "idle"
    /\ Invocations < MaxArchives
    /\ \E dir \in SourceDirs : CreateTarballFromDir(p, dir, SharedCacheID)
    /\ UNCHANGED <<srcVersion, coordVars, localVars, remoteVars>>

\* process p calls createTarballFromGit for the shared commit
SharedGit(p) ==
    /\ arch[p].pc = "idle"
    /\ Invocations < MaxArchives
    /\ \E dir \in SourceDirs : CreateTarballFromGit(p, dir, SharedCommitID)
    /\ UNCHANGED <<uuids, srcVersion, coordVars, localVars, remoteVars>>

\* the listing of p exits: it has read what is at the temporary path now;
\* `if (checkResults.status !== 0) throw`
ListChecked(p) ==
    /\ arch[p].pc = "listing"
    /\ LET tmp == TarballTmpPath(arch[p].uid)
           code == ListCode(paths, inodes, tmp)
       IN  /\ inodes' = IF tmp \in DOMAIN paths
                         THEN [inodes EXCEPT ![paths[tmp]].listed = (code = 0)]
                         ELSE inodes
           /\ paths' = paths
           /\ IF code # 0
              THEN Finish(p, "listFailed")
              ELSE /\ arch' = [arch EXCEPT ![p].pc = "renaming"]
                   /\ UNCHANGED calls
    /\ UNCHANGED <<archives, toolRuns, uuids, srcVersion, coordVars, localVars,
                   remoteVars>>

\* fs.renameSync(tarballTmpPath, tarballPath) of p: whatever is at the
\* temporary path now is moved into place; it throws when nothing is there
RenameInto(p) ==
    /\ arch[p].pc = "renaming"
    /\ inodes' = inodes
    /\ IF TarballTmpPath(arch[p].uid) \in DOMAIN paths
       THEN /\ paths' = Rename(paths, arch[p].uid, 0)
            /\ Finish(p, "created")
            /\ NewArchive(p, arch[p].mode, arch[p].uid, arch[p].shouldClean,
                          ~arch[p].shouldClean, TRUE)
       ELSE /\ paths' = paths
            /\ Finish(p, "renameFailed")
            /\ UNCHANGED archives
    /\ UNCHANGED <<toolRuns, uuids, srcVersion, coordVars, localVars, remoteVars>>

NextShared ==
    \/ SharedDir("p1")
    \/ SharedGit("p1")
    \/ CreateExit("p1")
    \/ ListChecked("p1")
    \/ RenameInto("p1")
    \/ SharedDir("p2")
    \/ SharedGit("p2")
    \/ CreateExit("p2")
    \/ ListChecked("p2")
    \/ RenameInto("p2")

SpecShared == InitArch /\ [][NextShared]_vars

(***************************************************************************)
(* The build context of the remote executor over several runs of the        *)
(* program: getBuildTarball with the cache id _checkImage computes, the     *)
(* clean() of the archive it holds, and edits of the source directory in    *)
(* between.  The cache directory outlives a run.                            *)
(***************************************************************************)
\* runs of the program that reach getBuildTarball
MaxRuns == 3
\* edits of the source directory
MaxEdits == 1

\* the references the runs resolve
ContextRefs == {ImageURI(in) : in \in CoordInputs}

\* the remote executor archives with no cache id
RemoteCacheIDOmitted(imageURI) == "undefined"

\* const cacheID = hash(imageURI, 32)
RemoteCacheID(imageURI) == Hash(imageURI)

\* RemoteDockerImage.getBuildTarball(input.buildDirectory, cacheID), called
\* by _checkImage for the reference it was given
GetBuildTarball(p) ==
    /\ arch[p].pc = "idle"
    /\ Len(calls) < MaxRuns
    /\ \E imageURI \in ContextRefs, buildDirectory \in BuildDirectoryKinds,
          dir \in SourceDirs :
          IF buildDirectory = "GIT"
          THEN /\ CreateTarballFromGit(p, dir, "HEAD")
               /\ UNCHANGED uuids
          ELSE CreateTarballFromDir(p, dir, RemoteCacheID(imageURI))
    /\ UNCHANGED <<srcVersion, coordVars, localVars, remoteVars>>

\* the files of the source directory are changed
EditSource ==
    /\ srcVersion < MaxEdits
    /\ srcVersion' = srcVersion + 1
    /\ UNCHANGED <<paths, inodes, arch, archives, calls, toolRuns, uuids,
                   coordVars, localVars, remoteVars>>

\* RemoteDockerImage.clean(): if (this.localAsset) this.localAsset.clean(),
\* for the archive object the run holds
CleanLocalAsset(p) ==
    /\ arch[p].pc = "idle"
    /\ archives # << >>
    /\ archives[Len(archives)].cleans = 0
    /\ IF archives[Len(archives)].mode = "dir"
       THEN CleanDir(Len(archives))
       ELSE /\ archives' = [archives EXCEPT ![Len(archives)].cleans = @ + 1]
            /\ UNCHANGED paths
    /\ UNCHANGED <<inodes, arch, calls, toolRuns, uuids, srcVersion, coordVars,
                   localVars, remoteVars>>

NextContext ==
    \/ GetBuildTarball("p1")
    \/ CreateExit("p1")
    \/ ListExit("p1")
    \/ CleanLocalAsset("p1")
    \/ EditSource

SpecContext == InitArch /\ [][NextContext]_vars

(***************************************************************************)
(* The remote executor: RemoteDockerImage._checkImage assembles the step    *)
(* list of a Cloud Build job, the CloudBuild dynamic provider's createBuild *)
(* stores the temporary secret, submits the job and waits for it, and the   *)
(* `results.apply` callback turns the job's payload into the image URI.     *)
(* A string of the source is a sequence of tokens, so that a split or a     *)
(* suffix test is computed on it.                                           *)
(***************************************************************************)
RemoteRegistryUrls ==
    {<<"gcr.io", "/", "acme">>, <<"gcr.io", "/", "acme", "/">>,
     <<"localhost", ":", "5000">>}

\* the values of input.secrets, "none" when the field is absent
SecretValues == {"s3cr3tA", "s3cr3tB"}

\* input.serviceAccount.email
ServiceAccountEmails == {"sa@acme", ""}

RemoteInputs ==
    [registryUrl : RemoteRegistryUrls, imageName : {<<"svc">>},
     version : {<<"1.2.3">>}, cache : BOOLEAN,
     secrets : SecretValues \cup {"none"}, ntags : 0..MaxTags,
     email : ServiceAccountEmails]

\* String.prototype.endsWith for a one-token suffix
EndsWith(s, t) == Len(s) > 0 /\ s[Len(s)] = t

\* the registry and the name are always joined by a slash
ImageBaseSlashAlways(in) == in.registryUrl \o <<"/">> \o in.imageName

\* this.imageBase
ImageBase(in) ==
    in.registryUrl
    \o (IF EndsWith(in.registryUrl, "/") THEN << >> ELSE <<"/">>)
    \o in.imageName

\* this.image
Image(in) == ImageBase(in) \o <<":">> \o in.version

\* this.imageCache
ImageCache(in) == ImageBase(in) \o <<":", "cacheFromTag">>

\* getDockerBuildArgs, for an input without platform and buildArgs
GetDockerBuildArgs(in) ==
    IF in.cache THEN <<<<"--cache-from">>, ImageCache(in)>> ELSE << >>

\* getDockerBuildTags
GetDockerBuildTags(in) ==
    [i \in 1..in.ntags |-> ImageBase(in) \o <<":", "t" \o ToString(i)>>]

\* resolveSecretsObject: `${key}=${value}` joined by newlines
ResolveSecretsObject(in) == <<"TOKEN", "=", in.secrets>>

RemoteSecretFilePath == <<"/workspace/secrets", "/", "keeta-build-secrets.txt">>

\* if (this.imageCache) { steps.push({ pull, allowFailure: true }) }
PullSteps(in) ==
    IF in.cache
    THEN <<[id |-> "", name |-> "docker",
            args |-> <<<<"pull">>, ImageCache(in)>>,
            allowFailure |-> TRUE, secretEnv |-> << >>]>>
    ELSE << >>

\* the step that writes the secret by printing the secret itself
SecretStepsLeaky(in) ==
    IF in.secrets = "none" THEN << >>
    ELSE <<[id |-> "create-secret-file", name |-> "gcloud",
            args |-> <<<<"-c">>,
                       <<"mkdir -p ", "/workspace/secrets", " && echo ">>
                         \o ResolveSecretsObject(in) \o <<" > ">>
                         \o RemoteSecretFilePath>>,
            allowFailure |-> FALSE, secretEnv |-> <<"KEETA_SECRET">>]>>

\* the 'create-secret-file' step: bash -c "mkdir -p ... && echo $$KEETA_SECRET > ..."
SecretSteps(in) ==
    IF in.secrets = "none" THEN << >>
    ELSE <<[id |-> "create-secret-file", name |-> "gcloud",
            args |-> <<<<"-c">>,
                       <<"mkdir -p ", "/workspace/secrets", " && echo $$",
                         "KEETA_SECRET", " > ">> \o RemoteSecretFilePath>>,
            allowFailure |-> FALSE, secretEnv |-> <<"KEETA_SECRET">>]>>

\* additionalSecretBuildArgs
AdditionalSecretBuildArgs(in, secretFilePath) ==
    IF in.secrets = "none" THEN << >>
    ELSE <<<<"--secret">>, <<"id=secrets,src=">> \o secretFilePath>>

\* the 'build-image' step
BuildStep(in) ==
    [id |-> "build-image", name |-> "docker",
     args |-> <<<<"build">>, <<"-t">>, Image(in)>>
              \o AdditionalSecretBuildArgs(in, RemoteSecretFilePath)
              \o GetDockerBuildArgs(in) \o <<<<".">>>>,
     allowFailure |-> FALSE,
     secretEnv |-> IF in.secrets = "none" THEN << >> ELSE <<"KEETA_SECRET">>]

\* for (const taggedImage of this.getDockerBuildTags(input)) steps.push({ tag })
TagSteps(in) ==
    [i \in 1..in.ntags |->
        [id |-> "", name |-> "docker",
         args |-> <<<<"tag">>, Image(in), GetDockerBuildTags(in)[i]>>,
         allowFailure |-> FALSE, secretEnv |-> << >>]]

\* the tag steps are pushed before the build step
StepsAfterSecretsTagFirst(in) == SecretSteps(in) \o TagSteps(in) \o <<BuildStep(in)>>

\* what _checkImage pushes to `steps` after the secrets have resolved
StepsAfterSecrets(in) == SecretSteps(in) \o <<BuildStep(in)>> \o TagSteps(in)

\* the arguments LocalDockerImage._checkImage hands to `docker build`
LocalBuildArgs(in, secretsDir) ==
    <<<<"-t">>, Image(in)>> \o GetDockerBuildArgs(in)
    \o AdditionalSecretBuildArgs(in, <<secretsDir, "/", "secrets">>)

RCur ==
    [rpc |-> rpc, steps |-> steps, apiCalls |-> apiCalls,
     secretExists |-> secretExists, cleanupFunctions |-> cleanupFunctions,
     error |-> error, retval |-> retval, image |-> image,
     assetCleaned |-> assetCleaned]

RSet(st) ==
    /\ rpc' = st.rpc
    /\ steps' = st.steps
    /\ apiCalls' = st.apiCalls
    /\ secretExists' = st.secretExists
    /\ cleanupFunctions' = st.cleanupFunctions
    /\ error' = st.error
    /\ retval' = st.retval
    /\ image' = st.image
    /\ assetCleaned' = st.assetCleaned
    /\ UNCHANGED <<rinput, coordVars, localVars, archVars>>

\* the promise of _checkImage (or the Output made from it) fails
RemoteFail(st, what) ==
    [st EXCEPT !.image = [type |-> "error", error |-> what, value |-> << >>],
               !.rpc = "done"]

\* a client call is made and awaited
Call(st, api) == [st EXCEPT !.apiCalls = Append(@, api), !.rpc = api]

\* createBuild up to its first await
EnterCreateBuild(st) ==
    IF rinput.secrets # "none" THEN Call(st, "createSecret")
    ELSE Call(st, "createBuild")

\* the rest of _checkImage: the steps, new CloudBuild(...), this.clean(); the
\* provider's create() then runs createBuild
AssembleAndSubmit(st) ==
    EnterCreateBuild([st EXCEPT !.steps = @ \o StepsAfterSecrets(rinput),
                                !.assetCleaned = TRUE])

\* `await this.getBuildTarball(...)` settles
GotBuildTarball ==
    /\ rpc = "getBuildTarball"
    /\ \E ok \in BOOLEAN :
          RSet(IF ~ok THEN RemoteFail(RCur, "archive")
               ELSE LET st == [RCur EXCEPT !.steps = PullSteps(rinput)]
                    IN  IF rinput.secrets # "none"
                        THEN [st EXCEPT !.rpc = "resolveSecrets"]
                        ELSE AssembleAndSubmit(st))

\* `await this.resolveSecretsObject(input.secrets)` settles
RemoteSecretsResolved ==
    /\ rpc = "resolveSecrets"
    /\ \E ok \in BOOLEAN :
          RSet(IF ok THEN AssembleAndSubmit(RCur)
               ELSE RemoteFail(RCur, "resolveSecrets"))

\* a value of the job's payload that may be missing
Null == [some |-> FALSE, val |-> << >>]
Some(v) == [some |-> TRUE, val |-> v]

Digests == {<<"sha256", ":", "abc">>}

\* waitedResults.results: undefined, or a list of built images
Payloads ==
    {[results |-> FALSE, images |-> << >>], [results |-> TRUE, images |-> << >>]}
    \cup {[results |-> TRUE, images |-> <<[name |-> n, digest |-> d]>>] :
             n \in {Null, Some(Image(rinput))},
             d \in {Null} \cup {Some(x) : x \in Digests}}

\* String.prototype.split(sep)[0]: what is before the first separator
SplitFirst(s, sep) ==
    IF \E i \in 1..Len(s) : s[i] = sep
    THEN SubSeq(s, 1, (CHOOSE i \in 1..Len(s) :
                          s[i] = sep /\ \A j \in 1..(i - 1) : s[j] # sep) - 1)
    ELSE s

\* a missing value in a template literal
Interpolate(m) == IF m.some THEN m.val ELSE <<"null">>

\* the callback of buildInfo.results.apply
ApplyResults(st) ==
    IF ~st.retval.results THEN RemoteFail(st, "No results")
    ELSE IF Len(st.retval.images) = 0 THEN RemoteFail(st, "No images built")
    ELSE LET imageInfo == st.retval.images[1]
         IN  IF ~imageInfo.name.some THEN RemoteFail(st, "No image name")
             ELSE [st EXCEPT
                     !.image = [type |-> "value", error |-> "",
                                value |-> SplitFirst(imageInfo.name.val, ":")
                                          \o <<"@">> \o Interpolate(imageInfo.digest)],
                     !.rpc = "done"]

\* createBuild after its cleanup loop: throw error, or return retval, whose
\* `results` the engine then hands to the apply callback
ReturnOrThrow(st) ==
    IF st.error # "" THEN RemoteFail(st, st.error)
    ELSE IF ~st.retval.set THEN RemoteFail(st, "retval is undefined")
    ELSE ApplyResults(st)

\* the error is thrown where it is caught, without the cleanup loop
CleanupSkipping(st) == ReturnOrThrow(st)

\* for (const cleanupFunc of cleanupFunctions) { await cleanupFunc(); }
Cleanup(st) ==
    IF st.cleanupFunctions > 0 THEN Call(st, "deleteSecret") ELSE ReturnOrThrow(st)

\* catch (e) { error = e; }
Caught(st, api) == Cleanup([st EXCEPT !.error = api])

\* createSecret settles; the cleanup closure is pushed; then the IAM grant
CreateSecretDone ==
    /\ rpc = "createSecret"
    /\ \E ok \in BOOLEAN :
          RSet(IF ~ok THEN Caught(RCur, "createSecret")
               ELSE LET st == [RCur EXCEPT !.secretExists = TRUE,
                                           !.cleanupFunctions = @ + 1]
                    IN  IF rinput.email = ""
                        THEN Caught(st, "Invalid service account")
                        ELSE Call(st, "setIamPolicy"))

SetIamPolicyDone ==
    /\ rpc = "setIamPolicy"
    /\ \E ok \in BOOLEAN :
          RSet(IF ok THEN Call(RCur, "addSecretVersion")
               ELSE Caught(RCur, "setIamPolicy"))

AddSecretVersionDone ==
    /\ rpc = "addSecretVersion"
    /\ \E ok \in BOOLEAN :
          RSet(IF ok THEN Call(RCur, "createBuild")
               ELSE Caught(RCur, "addSecretVersion"))

\* client.createBuild settles: the job is submitted, or the call failed
CreateBuildDone ==
    /\ rpc = "createBuild"
    /\ \E ok \in BOOLEAN :
          RSet(IF ok THEN Call(RCur, "operation.promise")
               ELSE Caught(RCur, "createBuild"))

\* retval = { ..., results: { images: (results.images ?? []).map(...) } }
Retval(payload) == [set |-> TRUE, results |-> TRUE, images |-> payload.images]

\* operation.promise() settles: the job ended, with a payload or an error
OperationDone ==
    /\ rpc = "operation.promise"
    /\ \/ RSet(Caught(RCur, "operation.promise"))
       \/ \E payload \in Payloads :
             RSet(Cleanup([RCur EXCEPT !.retval = Retval(payload)]))

\* deleteSecret settles; a failure of it is thrown out of createBuild
DeleteSecretDone ==
    /\ rpc = "deleteSecret"
    /\ \E ok \in BOOLEAN :
          RSet(IF ok THEN ReturnOrThrow([RCur EXCEPT !.secretExists = FALSE])
               ELSE RemoteFail(RCur, "deleteSecret"))

\* _checkImage has been entered and awaits the source tarball
InitRemote ==
    /\ rinput \in RemoteInputs
    /\ rpc = "getBuildTarball"
    /\ steps = << >>
    /\ apiCalls = << >>
    /\ secretExists = FALSE
    /\ cleanupFunctions = 0
    /\ error = ""
    /\ retval = [set |-> FALSE, results |-> FALSE, images |-> << >>]
    /\ image = [type |-> "none", error |-> "", value |-> << >>]
    /\ assetCleaned = FALSE
    /\ IdleCoord
    /\ IdleLocal
    /\ IdleArch

NextRemote ==
    \/ GotBuildTarball
    \/ RemoteSecretsResolved
    \/ CreateSecretDone
    \/ SetIamPolicyDone
    \/ AddSecretVersionDone
    \/ CreateBuildDone
    \/ OperationDone
    \/ DeleteSecretDone

SpecRemote == InitRemote /\ [][NextRemote]_vars

(***************************************************************************)
(* One `new DockerImage(prefix, input)`: the facade chooses the executor,   *)
(* whose BaseDockerImage.constructor computes the version tag (hashing the  *)
(* file tree for FILE versioning), resolves the reference and tests and     *)
(* sets the AwaitingOutput table.  The listing a readdirSync call returns   *)
(* is the host's choice.  The tarball cache that GIT versioning fills is    *)
(* the subject of SpecArch; here the archiver returns or throws.            *)
(***************************************************************************)
\* `new DockerImage` calls
MaxFacades == 1

\* the files below the paths a FILE versioning may name
FileData ==
    [p \in {"/one", "/flat/a", "/flat/b", "/nested/a", "/nested/d/c", "/nested/d/e"} |->
        CASE p = "/one" -> "A"
          [] p = "/flat/a" -> "A"
          [] p = "/flat/b" -> "B"
          [] p = "/nested/a" -> "A"
          [] p = "/nested/d/c" -> "C"
          [] OTHER -> "E"]

\* the directories and the names in them
DirEntries ==
    [p \in {"/flat", "/nested", "/nested/d"} |->
        CASE p = "/flat" -> {"a", "b"}
          [] p = "/nested" -> {"a", "d"}
          [] OTHER -> {"c", "e"}]

FromFiles == {"/one", "/flat", "/nested"}

\* the directories a traversal from `root` lists
DirsUnder(root) ==
    CASE root = "/flat" -> {"/flat"}
      [] root = "/nested" -> {"/nested", "/nested/d"}
      [] OTHER -> {}

\* the orders readdirSync may return the names of a directory in
Listings(names) ==
    {o \in [1..Cardinality(names) -> names] :
        \A i, j \in DOMAIN o : o[i] = o[j] => i = j}

\* one listing per directory of the traversal
Readdirs(root) ==
    {r \in [DirsUnder(root) -> UNION {Listings(DirEntries[d]) : d \in DirsUnder(root)}] :
        \A d \in DirsUnder(root) : r[d] \in Listings(DirEntries[d])}

\* updateHashWithMultipleFiles: a file is fed to the hash; the items of a
\* directory are visited in the order of its listing
RECURSIVE UpdateHashWithMultipleFiles(_, _, _)
RECURSIVE UpdateHashWithItems(_, _, _, _)
UpdateHashWithMultipleFiles(filePath, readdir, hashState) ==
    IF filePath \in DOMAIN FileData THEN hashState \o FileData[filePath]
    ELSE UpdateHashWithItems(filePath, readdir, 1, hashState)

UpdateHashWithItems(filePath, readdir, i, hashState) ==
    IF i > Len(readdir[filePath]) THEN hashState
    ELSE UpdateHashWithItems(filePath, readdir, i + 1,
            UpdateHashWithMultipleFiles(filePath \o "/" \o readdir[filePath][i],
                                        readdir, hashState))

\* digest('hex').substring(0, n) of what the hash was fed
HexDigest(algo, data, n) == algo \o "(" \o data \o ")[0.." \o ToString(n) \o "]"

\* getFileResourceIdentifier
GetFileResourceIdentifier(computeFrom, readdir) ==
    HexDigest("sha1", UpdateHashWithMultipleFiles(computeFrom, readdir, ""), 9)

FacadeFields == [serviceAccount : BOOLEAN, bucket : BOOLEAN, provider : BOOLEAN]

\* the tags the FILE strategy makes of the files above
FileTags ==
    UNION {{GetFileResourceIdentifier(from, r) : r \in Readdirs(from)} :
              from \in FromFiles}

\* the values a PLAIN versioning is given: a version number, and a string
\* that spells `hash_` and nine hex digits
PlainValues == {"1.2.3", "hash_" \o GetFileResourceIdentifier("/one", << >>)}

\* the pieces of `${value}` in the tag: a string is cut after `hash_` the
\* way the tag of the FILE strategy is written, so that equal strings are
\* equal sequences
Characters(value) ==
    IF \E d \in FileTags : value = "hash_" \o d
    THEN <<"hash_", CHOOSE d \in FileTags : value = "hash_" \o d>>
    ELSE <<value>>

Versionings ==
    [type : {"PLAIN"}, arg : PlainValues]
    \cup [type : {"FILE"}, arg : FromFiles]
    \cup [type : {"GIT"}, arg : CommitIDs]
    \cup [type : {"SEMVER"}, arg : {"^1"}]

FacadeInputs ==
    [fields : FacadeFields, registryUrl : RemoteRegistryUrls,
     imageName : {<<"svc">>}, versioning : Versionings]

\* the facade builds locally whatever fields the input has
SelectExecutorLocalOnly(fields) == "local"

\* if ('serviceAccount' in input && 'bucket' in input && 'provider' in input)
SelectExecutor(fields) ==
    IF fields.serviceAccount /\ fields.bucket /\ fields.provider
    THEN "remote" ELSE "local"

\* JSON.stringify(input.versioning)
Stringify(versioning) ==
    "{type:" \o versioning.type \o ",arg:" \o versioning.arg \o "}"

\* the switch on input.versioning.type
VersionIdentifier(in, readdir, archived) ==
    CASE in.versioning.type = "FILE" ->
            [threw |-> FALSE, error |-> "",
             tag |-> <<"hash_", GetFileResourceIdentifier(in.versioning.arg, readdir)>>]
      [] in.versioning.type = "PLAIN" ->
            [threw |-> FALSE, error |-> "", tag |-> Characters(in.versioning.arg)]
      [] in.versioning.type = "GIT" ->
            IF ResolveCommit(in.versioning.arg) = "" \/ ~archived
            THEN [threw |-> TRUE, error |-> "GitTarballArchive", tag |-> << >>]
            ELSE [threw |-> FALSE, error |-> "",
                  tag |-> <<"git_", GitUniqueID("/src", ResolveCommit(in.versioning.arg))>>]
      [] OTHER ->
            [threw |-> TRUE, tag |-> << >>,
             error |-> "Invalid docker versioning input " \o Stringify(in.versioning)]

\* what the host and the archiver may do during one constructor
ConstructorChoices(in) ==
    [readdir : IF in.versioning.type = "FILE"
               THEN Readdirs(in.versioning.arg) ELSE {<< >>},
     archived : IF in.versioning.type = "GIT" /\ ResolveCommit(in.versioning.arg) # ""
                THEN BOOLEAN ELSE {TRUE}]

\* the own properties of a facade: what its constructor assigns
FacadeProperties == {"urn", "uri", "image", "imageBase", "getProvider", "clean"}

\* the own properties of an executor
ExecutorProperties(kind) ==
    {"urn", "uri", "image", "imageBase", "toCleanDirectories"}
    \cup (IF kind = "remote" THEN {"localAsset"} ELSE {})

NotCleaned == [called |-> FALSE, threw |-> FALSE, dirs |-> FALSE, asset |-> FALSE]

\* BaseDockerImage.clean called on an object with the properties `this`:
\* `for (const cleanDir of this.toCleanDirectories)` throws a TypeError when
\* the property is undefined
BaseClean(this) ==
    IF "toCleanDirectories" \in this
    THEN [called |-> TRUE, threw |-> FALSE, dirs |-> TRUE, asset |-> FALSE]
    ELSE [called |-> TRUE, threw |-> TRUE, dirs |-> FALSE, asset |-> FALSE]

\* RemoteDockerImage.clean: super.clean(); if (this.localAsset) { ...clean() }
RemoteClean(this) ==
    IF BaseClean(this).threw THEN BaseClean(this)
    ELSE [BaseClean(this) EXCEPT !.asset = "localAsset" \in this]

\* the clean method of the executor class, called on `this`
Clean(kind, this) == IF kind = "remote" THEN RemoteClean(this) ELSE BaseClean(this)

\* new DockerImage(prefix, input): the executor's constructor runs to its
\* throw, or to registerOutputs
ConstructDockerImage ==
    /\ Len(instances) < MaxFacades
    /\ \E in \in FacadeInputs :
       \E ch \in ConstructorChoices(in) :
          LET kind == SelectExecutor(in.fields)
              v == VersionIdentifier(in, ch.readdir, ch.archived)
              imageURI == ImageBase(in) \o <<":">> \o v.tag
              starts == ~v.threw /\ imageURI \notin DOMAIN AwaitingOutput
          IN  /\ builds' = IF starts
                           THEN Append(builds, [kind |-> kind, imageURI |-> imageURI,
                                                state |-> "pending", steps |-> 0])
                           ELSE builds
              /\ AwaitingOutput' =
                    IF starts
                    THEN [k \in DOMAIN AwaitingOutput \cup {imageURI} |->
                            IF k = imageURI THEN Len(builds) + 1 ELSE AwaitingOutput[k]]
                    ELSE AwaitingOutput
              /\ instances' = Append(instances,
                    [input |-> in, readdir |-> ch.readdir, executors |-> <<kind>>,
                     threw |-> v.threw, error |-> v.error,
                     image |-> IF v.threw THEN << >> ELSE imageURI,
                     started |-> starts,
                     uri |-> IF v.threw THEN 0 ELSE AwaitingOutput'[imageURI],
                     cleaned |-> NotCleaned])
    /\ UNCHANGED <<localVars, archVars, remoteVars>>

\* facade.clean(): the facade holds `image.clean` as it is, so the method
\* of the executor's class runs with the facade as its `this`
FacadeClean ==
    /\ \E f \in DOMAIN instances :
          /\ ~instances[f].threw
          /\ ~instances[f].cleaned.called
          /\ instances' = [instances EXCEPT
                ![f].cleaned = Clean(instances[f].executors[1], FacadeProperties)]
    /\ UNCHANGED <<AwaitingOutput, builds, localVars, archVars, remoteVars>>

InitRef ==
    /\ IdleCoord
    /\ IdleLocal
    /\ IdleArch
    /\ IdleRemote

NextRef ==
    \/ ConstructDockerImage
    \/ FacadeClean

SpecRef == InitRef /\ [][NextRef]_vars

(***************************************************************************)
(* Claims about the coordinator, under SpecCoord.                           *)
(***************************************************************************)

\* C1: _checkImage is invoked at most once per resolved image reference, and
\* every request for a reference is handed the one promise (pending or
\* settled) that this single invocation returned.
C1_OneBuildPerReference ==
    /\ \A a, b \in DOMAIN builds :
         builds[a].imageURI = builds[b].imageURI => a = b
    /\ \A i \in DOMAIN instances :
         /\ instances[i].uri \in DOMAIN builds
         /\ builds[instances[i].uri].imageURI = instances[i].imageURI
    /\ \A i, j \in DOMAIN instances :
         instances[i].imageURI = instances[j].imageURI
            => instances[i].uri = instances[j].uri

\* two overlapping requests for one reference: the second arrived while the
\* first build was still pending, and a third arrived after it had settled
C1_Witness ==
    \E i, j, k \in DOMAIN instances :
        /\ i < j /\ j < k
        /\ instances[i].imageURI = instances[j].imageURI
        /\ instances[j].imageURI = instances[k].imageURI
        /\ instances[i].started
        /\ instances[j].observed = "pending"
        /\ instances[k].observed = "resolved"

\* C2: an entry of the table is never removed or replaced, whatever the
\* state of its promise (a rejected one included); a request arriving for a
\* key that has an entry is handed that entry and starts no build.
C2_EntryIsPermanent ==
    [][\A key \in DOMAIN AwaitingOutput :
          /\ key \in DOMAIN AwaitingOutput'
          /\ AwaitingOutput'[key] = AwaitingOutput[key]
          /\ builds'[AwaitingOutput[key]].imageURI = key
          /\ builds[AwaitingOutput[key]].state = "rejected"
                => builds'[AwaitingOutput[key]].state = "rejected"
          /\ ( /\ Len(instances') > Len(instances)
               /\ instances'[Len(instances')].imageURI = key )
                => /\ instances'[Len(instances')].uri = AwaitingOutput[key]
                   /\ Len(builds') = Len(builds)
      ]_vars

\* a request arrived after the build of its reference had failed and was
\* handed the failed promise
C2_Witness ==
    \E i \in DOMAIN instances :
        /\ instances[i].observed = "rejected"
        /\ ~instances[i].started
        /\ instances[i].imageURI \in DOMAIN AwaitingOutput
        /\ instances[i].uri = AwaitingOutput[instances[i].imageURI]
        /\ builds[instances[i].uri].state = "rejected"

\* C3: local and remote builds are deduplicated separately: every request
\* is handed a promise of a build of its own backend.
C3_BackendsHaveOwnKeys ==
    \A i \in DOMAIN instances :
        /\ instances[i].uri \in DOMAIN builds
        /\ builds[instances[i].uri].kind = instances[i].kind

(***************************************************************************)
(* Claims about the local executor, under SpecLocal.                        *)
(***************************************************************************)
Invocation(cmd, arg) == [cmd |-> cmd, arg |-> arg]

\* the tools started so far, in order
Invoked ==
    LET starts == SelectSeq(execLog, LAMBDA e : e.ev = "start")
    IN  [i \in 1..Len(starts) |-> Invocation(starts[i].cmd, starts[i].arg)]

\* `tag <ref> <tagged>` then `image push <tagged>` per additional tag
TagInvocations(n) ==
    [i \in 1..(2 * n) |->
        IF i % 2 = 1 THEN Invocation("tag", (i + 1) \div 2)
        ELSE Invocation("image push", i \div 2)]

OrderOfSuccessfulBuild ==
    <<Invocation("image rm", "ref")>>
    \o (IF input.cache THEN <<Invocation("pull", "cacheTag")>> ELSE << >>)
    \o <<Invocation("build", BuildContext), Invocation("image push", "ref")>>
    \o TagInvocations(input.ntags)
    \o <<Invocation("image inspect", "ref")>>

Started(cmd) == \E i \in 1..Len(execLog) : execLog[i] = [ev |-> "start", cmd |-> cmd.cmd, arg |-> cmd.arg]

LaterFailures ==
    {s \in DOMAIN outcome \ {"rm", "pull", "extractAtBuild", "clean"} : outcome[s] # 0}

\* C5: whatever `image rm` and `pull` exit with, the build goes on: docker
\* build is started unless a step between them and the build fails, and the
\* settled result is decided by the outcomes of the later steps alone.
C5_BestEffortStepsNeverAbort ==
    pc = "done" =>
        /\ "rm" \in DOMAIN outcome
        /\ input.cache => "pull" \in DOMAIN outcome
        /\ result.what \notin {"rm", "pull"}
        /\ Started(Invocation("build", BuildContext))
              <=> LaterFailures \cap {"archive", "resolveSecrets", "writeSecrets"} = {}
        /\ IF outcome["clean"] # 0 THEN result = [type |-> "error", what |-> "clean"]
           ELSE IF LaterFailures # {}
                THEN result.type = "error" /\ result.what \in LaterFailures
                ELSE result.type = "value"

\* both best-effort steps failed and the build returned its digest
C5_Witness ==
    /\ pc = "done"
    /\ "rm" \in DOMAIN outcome /\ outcome["rm"] = 1
    /\ "pull" \in DOMAIN outcome /\ outcome["pull"] = 1
    /\ result = [type |-> "value", what |-> "digest"]

\* C6: when context materialization (archiving, extraction), build, push, an
\* additional tag or push, or the inspection fails, no later step is started
\* and the build settles with the error of that step.
C6_FailureAborts ==
    /\ \A s \in {"archive", "build", "push", "tag", "pushTag", "inspect"} \cap DOMAIN outcome :
          outcome[s] # 0 =>
             /\ pc = "done"
             /\ outcome["clean"] = 0 => result = [type |-> "error", what |-> s]
    /\ "extractAtBuild" \in DOMAIN outcome => outcome["extractAtBuild"] # "failed"
    /\ (extract = "failed" /\ pc = "done" /\ outcome["clean"] = 0)
          => result.type = "error"

\* C7: when the build has settled, no temporary directory the executor made
\* is left on disk (unless an rmSync of the cleanup itself threw).
C7_TempDirsRemoved ==
    (pc = "done" /\ outcome["clean"] = 0) => made \cap disk = {}

(***************************************************************************)
(* Claims about the tarball cache, under SpecArch.                          *)
(***************************************************************************)

\* the other files of the cache directory are as they were
OthersKept(path) ==
    \A q \in DOMAIN paths \ {path} : q \in DOMAIN paths' /\ paths'[q] = paths[q]

\* C8: a clean() call on a directory archive deletes the archive file
\* exactly when this object made the file for an omitted cache id and has
\* not been cleaned before; any other clean() call leaves the disk as it
\* is, so an archive with an explicit cache id stays on disk.
C8_CleanDeletesOnlySingleUse ==
    /\ [](\A a \in DOMAIN archives :
             (archives[a].mode = "dir" /\ archives[a].explicit)
                => archives[a].path \in DOMAIN paths)
    /\ [][\A a \in DOMAIN archives :
             (archives[a].mode = "dir" /\ archives'[a].cleans = archives[a].cleans + 1)
                => IF /\ archives[a].createdHere
                      /\ ~archives[a].explicit
                      /\ archives[a].cleans = 0
                   THEN /\ archives[a].path \in DOMAIN paths
                        /\ archives[a].path \notin DOMAIN paths'
                        /\ OthersKept(archives[a].path)
                   ELSE paths' = paths
         ]_vars

\* both kinds of directory archive have been cleaned: the one with the cache
\* id is on disk, the single-use one is gone
C8_Witness ==
    \E a, b \in DOMAIN archives :
        /\ archives[a].mode = "dir" /\ archives[a].explicit
        /\ archives[a].createdHere /\ archives[a].cleans = 1
        /\ archives[a].path \in DOMAIN paths
        /\ archives[b].mode = "dir" /\ ~archives[b].explicit
        /\ archives[b].createdHere /\ archives[b].cleans = 1
        /\ archives[b].path \notin DOMAIN paths

\* C9: an archiver invocation that finds the archive of its uniqueID at the
\* canonical path returns that path, runs no tool and leaves the file (its
\* inode and the generation of its content) as it found it.
C9_CachedArchiveReused ==
    /\ \A p \in ArchProcs : arch[p].pc # "idle" => ~arch[p].existed
    /\ \A c \in DOMAIN calls :
          calls[c].existed =>
             /\ calls[c].how = "returned"
             /\ calls[c].runs = 0
             /\ calls[c].before.inode # 0
             /\ calls[c].after = calls[c].before

\* a git archive and a directory archive were each made by one invocation
\* and found by a later one
C9_Witness ==
    \E c, d \in DOMAIN calls :
        /\ calls[c].mode = "git" /\ calls[c].existed /\ calls[c].how = "returned"
        /\ calls[d].mode = "dir" /\ calls[d].existed /\ calls[d].how = "returned"
        /\ \E b \in 1..(c - 1) : calls[b].uid = calls[c].uid /\ calls[b].how = "created"
        /\ \E b \in 1..(d - 1) : calls[b].uid = calls[d].uid /\ calls[b].how = "created"

\* the uniqueIDs the archiver has worked on
SeenUids ==
    {calls[c].uid : c \in DOMAIN calls}
    \cup {arch[p].uid : p \in {q \in ArchProcs : arch[q].pc # "idle"}}

\* C10: a file at a canonical cache path was written by a creation that
\* exited 0 and has passed the listing that followed; an invocation whose
\* creation or listing failed threw after that single creation and left the
\* canonical path as it was.
C10_CanonicalOnlyAfterValidation ==
    /\ \A u \in SeenUids :
          TarballPath_(u) \in DOMAIN paths =>
             /\ inodes[paths[TarballPath_(u)]].createCode = 0
             /\ inodes[paths[TarballPath_(u)]].listed
             /\ inodes[paths[TarballPath_(u)]].content = "complete"
    /\ \A c \in DOMAIN calls :
          calls[c].how \in {"createFailed", "listFailed"} =>
             /\ calls[c].runs = 1
             /\ calls[c].after = calls[c].before

\* one invocation threw at the listing, one at the creation, and a later
\* one for the same uniqueID put its archive into place
C10_Witness ==
    \E b, c, d \in DOMAIN calls :
        /\ b < d /\ c < d
        /\ calls[b].how = "listFailed"
        /\ calls[c].how = "createFailed"
        /\ calls[d].how = "created"
        /\ calls[b].uid = calls[d].uid
        /\ TarballPath_(calls[d].uid) \in DOMAIN paths

(***************************************************************************)
(* Claims about the remote executor, under SpecRemote.                      *)
(***************************************************************************)

\* the indices of the steps whose first argument is `verb`
StepsWithVerb(verb) == {i \in DOMAIN steps : steps[i].args[1] = <<verb>>}

Tokens(args) == UNION {{args[a][k] : k \in DOMAIN args[a]} : a \in DOMAIN args}

\* the argument lists of the steps, in order
StepArgs(ss) == [i \in DOMAIN ss |-> ss[i].args]

\* C12: no secret value is among the arguments of a remote step or of the
\* local docker build; both argument lists are the same for every secret
\* value, and the build carries `--secret id=secrets,src=<path>` exactly when
\* secrets are supplied.
C12_NoSecretInArguments ==
    /\ \A i \in DOMAIN steps : Tokens(steps[i].args) \cap SecretValues = {}
    /\ \A i \in DOMAIN steps : \A k \in DOMAIN steps[i].secretEnv :
          steps[i].secretEnv[k] \notin SecretValues
    /\ Tokens(LocalBuildArgs(rinput, "/tmp/secrets-X")) \cap SecretValues = {}
    /\ (<<"--secret">> \in {LocalBuildArgs(rinput, "/tmp/secrets-X")[a] :
                              a \in DOMAIN LocalBuildArgs(rinput, "/tmp/secrets-X")})
          <=> rinput.secrets # "none"
    /\ rinput.secrets # "none" =>
          \A s \in SecretValues :
             LocalBuildArgs([rinput EXCEPT !.secrets = s], "/tmp/secrets-X")
                = LocalBuildArgs(rinput, "/tmp/secrets-X")
    /\ assetCleaned =>
          /\ \A i \in DOMAIN steps :
                steps[i].id = "build-image" =>
                   /\ (\E a \in DOMAIN steps[i].args : steps[i].args[a] = <<"--secret">>)
                         <=> rinput.secrets # "none"
                   /\ \A a \in DOMAIN steps[i].args :
                         steps[i].args[a] = <<"--secret">> =>
                            steps[i].args[a + 1] = <<"id=secrets,src=">> \o RemoteSecretFilePath
          /\ rinput.secrets # "none" =>
                \A s \in SecretValues :
                   StepArgs(steps) =
                      StepArgs(PullSteps([rinput EXCEPT !.secrets = s])
                               \o StepsAfterSecrets([rinput EXCEPT !.secrets = s]))

\* a job with secrets was assembled and submitted
C12_Witness ==
    /\ assetCleaned
    /\ rinput.secrets \in SecretValues
    /\ \E i \in DOMAIN steps : steps[i].id = "create-secret-file"
    /\ "createBuild" \in {apiCalls[i] : i \in DOMAIN apiCalls}

\* the job ended and createBuild returned its payload
JobReturned == rpc = "done" /\ error = "" /\ retval.set

\* C13: when the job's payload has no images, or a first image without a
\* name or without a digest, the remote build fails and gives no value.
C13_BadPayloadFails ==
    ( /\ JobReturned
      /\ \/ Len(retval.images) = 0
         \/ ~retval.images[1].name.some
         \/ ~retval.images[1].digest.some )
        => image.type = "error"

\* the registry base and the image name, joined by one slash
NameWithoutTag(in) ==
    (IF in.registryUrl[Len(in.registryUrl)] = "/"
     THEN SubSeq(in.registryUrl, 1, Len(in.registryUrl) - 1)
     ELSE in.registryUrl) \o <<"/">> \o in.imageName

\* C14: a job that returns its first image with a name and a digest makes
\* the build give `{registryBase}/{imageName}@{digest}`.
C14_NameWithoutTagAtDigest ==
    ( /\ JobReturned
      /\ Len(retval.images) > 0
      /\ retval.images[1].name.some
      /\ retval.images[1].digest.some )
        => /\ image.type = "value"
           /\ image.value = NameWithoutTag(rinput) \o <<"@">> \o retval.images[1].digest.val

\* the calls made so far that are `api`
CallsOf(api) == {i \in DOMAIN apiCalls : apiCalls[i] = api}

\* C20: when createBuild has returned or thrown after createSecret had
\* succeeded, deleteSecret has been called, once and as the last call; and
\* the job is submitted only right after addSecretVersion has succeeded.
C20_SecretAlwaysDeleted ==
    /\ (rpc = "done" /\ cleanupFunctions > 0) =>
          /\ Cardinality(CallsOf("deleteSecret")) = 1
          /\ apiCalls[Len(apiCalls)] = "deleteSecret"
    /\ cleanupFunctions > 0 <=>
          (CallsOf("createSecret") # {} /\ rpc # "createSecret" /\ error # "createSecret")
    /\ \A i \in CallsOf("createBuild") :
          rinput.secrets # "none" =>
             /\ i > 1
             /\ apiCalls[i - 1] = "addSecretVersion"
             /\ CallsOf("createSecret") # {}

\* the job itself failed after the secret had been stored, and the secret
\* was deleted
C20_Witness ==
    /\ rpc = "done"
    /\ error = "operation.promise"
    /\ apiCalls = <<"createSecret", "setIamPolicy", "addSecretVersion",
                    "createBuild", "operation.promise", "deleteSecret">>
    /\ ~secretExists

(***************************************************************************)
(* Claims about the facade and the reference, under SpecRef.                *)
(***************************************************************************)

C16_ReferenceResolution ==
    /\ \A f \in DOMAIN instances :
          LET in == instances[f].input
              type == in.versioning.type
          IN  /\ type = "PLAIN" =>
                    /\ ~instances[f].threw
                    /\ instances[f].image
                          = NameWithoutTag(in) \o <<":">> \o Characters(in.versioning.arg)
              /\ type = "FILE" =>
                    /\ ~instances[f].threw
                    /\ instances[f].image
                          = NameWithoutTag(in)
                            \o <<":", "hash_",
                                 HexDigest("sha1",
                                    UpdateHashWithMultipleFiles(in.versioning.arg,
                                                                instances[f].readdir, ""),
                                    9)>>
              /\ (type = "GIT" /\ ~instances[f].threw) =>
                    instances[f].image
                       = NameWithoutTag(in)
                         \o <<":", "git_", Hash("/src") \o "-" \o "c1">>
              /\ type \notin {"PLAIN", "FILE", "GIT"} =>
                    /\ instances[f].threw
                    /\ instances[f].error
                          = "Invalid docker versioning input " \o Stringify(in.versioning)
              /\ instances[f].threw =>
                    /\ ~instances[f].started
                    /\ instances[f].image = << >>
    /\ \A b \in DOMAIN builds :
          \E f \in DOMAIN instances :
             /\ ~instances[f].threw
             /\ instances[f].image = builds[b].imageURI

\* a registry URL that ends in a slash, with FILE versioning of a directory,
\* has started a build
C16_Witness ==
    \E f \in DOMAIN instances :
        /\ EndsWith(instances[f].input.registryUrl, "/")
        /\ instances[f].input.versioning = [type |-> "FILE", arg |-> "/nested"]
        /\ instances[f].started
        /\ instances[f].image[Len(instances[f].image) - 1] = "hash_"

\* C17: the identifier of a FILE versioning is the one every listing order
\* of the directories gives.
C17_HashIgnoresListingOrder ==
    \A f \in DOMAIN instances :
        instances[f].input.versioning.type = "FILE" =>
           \A r \in Readdirs(instances[f].input.versioning.arg) :
              instances[f].image[Len(instances[f].image)]
                 = GetFileResourceIdentifier(instances[f].input.versioning.arg, r)

(***************************************************************************)
(* Further claims about the coordinator (SpecCoord) and the local executor  *)
(* (SpecLocal).                                                             *)
(***************************************************************************)

C19_BuildAfterExtraction ==
    /\ Started(Invocation("build", "tmpDir")) =>
          outcome["extractAtBuild"] \in {"ok", "failed"}
    /\ ("tmpDir" \in made /\ "tmpDir" \notin disk) => extract # "running"

\* C21: a failing cleanup never replaces the error of the build step: when a
\* call of createBuild was caught and stored, the caller of createBuild
\* receives that stored error, whatever the deletion of the temporary secret
\* does afterwards.
C21_CleanupKeepsOriginalError ==
    (rpc = "done" /\ error # "") =>
        (image.type = "error" /\ image.error = error)

\* the remote job has reached a terminal state: operation.promise() was
\* awaited and has settled
JobTerminated == CallsOf("operation.promise") # {} /\ rpc # "operation.promise"

\* C27: the remote executor calls clean() on its build-context artifact only
\* after the remote job has reached its terminal state, and has called it
\* whenever a submitted job has ended, with or without an error.
C27_CleanAfterJobTerminated ==
    /\ assetCleaned => JobTerminated
    /\ (rpc = "done" /\ JobTerminated) => assetCleaned

\* C22: the cleanup removes only directories the executor has created: a
\* directory given by the caller and handed to `docker build` as it is still
\* exists when the local build has terminated, whatever the inputs are.
C22_CallerDirectoryKept ==
    (pc = "done" /\ BuildContext = "callerDir") => "callerDir" \in disk

\* C23: when a local build from a directory-snapshot source has terminated,
\* the single-use archive made for it is no longer on disk.
C23_SingleUseArchiveGone ==
    (pc = "done" /\ input.buildDirectory = "DIRECTORY") => "dirArchive" \notin disk

\* the input has some of the three remote fields, and not all of them
PartialRemoteFields(fields) ==
    /\ fields.serviceAccount \/ fields.bucket \/ fields.provider
    /\ ~(fields.serviceAccount /\ fields.bucket /\ fields.provider)

\* C25: an input with some but not all of the three remote fields is
\* rejected with an error, and no build, local or remote, is started for it.
C25_PartialRemoteFieldsRejected ==
    \A f \in DOMAIN instances :
        PartialRemoteFields(instances[f].input.fields) =>
            /\ instances[f].threw
            /\ ~instances[f].started

\* the references an input with versioning `w` can resolve to
ReferencesOf(in, w) ==
    LET other == [in EXCEPT !.versioning = w]
    IN  {ImageBase(other) \o <<":">> \o VersionIdentifier(other, ch.readdir, ch.archived).tag :
            ch \in {c \in ConstructorChoices(other) :
                       ~VersionIdentifier(other, c.readdir, c.archived).threw}}

\* C26: inputs with the same registry and image name and different
\* versioning strategies never resolve to the same reference: the reference a
\* facade has resolved is no reference of the same input under a versioning of
\* another type.
C26_StrategiesNeverCollide ==
    \A f \in DOMAIN instances :
        ~instances[f].threw =>
            \A w \in Versionings :
                w.type # instances[f].input.versioning.type =>
                    instances[f].image \notin ReferencesOf(instances[f].input, w)

\* the first request that resolved to the reference of request i
FirstRequest(i) ==
    CHOOSE j \in DOMAIN instances :
        /\ instances[j].imageURI = instances[i].imageURI
        /\ \A k \in 1..(j - 1) : instances[k].imageURI # instances[i].imageURI

\* C28: the key of the table is the reference alone: a request whose
\* reference an earlier request resolved to starts no pipeline, whatever its
\* other inputs are, and holds the promise of the pipeline that the first
\* request started with the first request's inputs.
C28_KeyIsReferenceAlone ==
    \A i \in DOMAIN instances :
        /\ instances[i].started <=> (i = FirstRequest(i))
        /\ instances[i].uri = instances[FirstRequest(i)].uri
        /\ builds[instances[i].uri].variant = instances[FirstRequest(i)].variant

\* a later request with other build inputs holds the settled promise of the
\* pipeline that ran with the first request's inputs
C28_Witness ==
    \E i, j \in DOMAIN instances :
        /\ i < j
        /\ instances[i].imageURI = instances[j].imageURI
        /\ instances[i].variant # instances[j].variant
        /\ instances[i].started /\ ~instances[j].started
        /\ instances[j].uri = instances[i].uri
        /\ builds[instances[j].uri].variant = instances[i].variant
        /\ builds[instances[j].uri].state = "resolved"

\* C30: clean() called through the facade does what clean() called on the
\* selected executor does: the executor's temporary directories are removed,
\* the remote executor's archive has its clean() invoked, and no error is
\* raised.
C30_FacadeCleanIsExecutorClean ==
    \A f \in DOMAIN instances :
        instances[f].cleaned.called =>
            /\ instances[f].cleaned
                  = Clean(instances[f].executors[1],
                          ExecutorProperties(instances[f].executors[1]))
            /\ ~instances[f].cleaned.threw
            /\ instances[f].cleaned.dirs
            /\ instances[f].executors[1] = "remote" => instances[f].cleaned.asset

(***************************************************************************)
(* Claims about two archiver processes, under SpecShared.                   *)
(***************************************************************************)

\* C24: with two invocations for one uniqueID running in two processes, the
\* file at the canonical cache path is in every state absent or a complete
\* archive that has passed the listing: no incomplete or unlisted file is
\* ever renamed into place.
C24_SharedCacheNeverIncomplete ==
    \A u \in SeenUids :
        TarballPath_(u) \in DOMAIN paths =>
            /\ inodes[paths[TarballPath_(u)]].content = "complete"
            /\ inodes[paths[TarballPath_(u)]].listed

(***************************************************************************)
(* Claims about the remote executor's build context, under SpecContext.     *)
(***************************************************************************)

\* C29: in the remote executor a directory archive is identified by the
\* directory path and the resolved reference alone: it is made with an
\* explicit cache id, so no clean() deletes it, and an invocation that finds
\* the file of its reference returns it without running a tool and leaves it
\* as it is, whatever has happened to the directory's contents since the file
\* was written.
C29_RemoteArchiveKeyedByReference ==
    /\ \A a \in DOMAIN archives :
          archives[a].mode = "dir" =>
             /\ archives[a].explicit
             /\ ~archives[a].shouldClean
             /\ archives[a].path \in DOMAIN paths
    /\ \A c \in DOMAIN calls :
          calls[c].mode = "dir" =>
             /\ \E dir \in SourceDirs, imageURI \in ContextRefs :
                   calls[c].uid = DirUniqueID(dir, Hash(imageURI))
             /\ calls[c].existed =>
                   /\ calls[c].how = "returned"
                   /\ calls[c].runs = 0
                   /\ calls[c].after = calls[c].before
                   /\ inodes[calls[c].after.inode].from <= calls[c].srcVersion
             /\ calls[c].how = "created" =>
                   inodes[calls[c].after.inode].from <= calls[c].srcVersion

\* the archive of a reference was cleaned, the directory was edited, and a
\* later run for the same reference was handed the file written before the
\* edit
C29_Witness ==
    \E c \in DOMAIN calls, a \in DOMAIN archives :
        /\ calls[c].mode = "dir" /\ calls[c].how = "returned"
        /\ inodes[calls[c].after.inode].from < calls[c].srcVersion
        /\ archives[a].path = TarballPath_(calls[c].uid)
        /\ archives[a].createdHere /\ archives[a].cleans > 0
        /\ archives[a].path \in DOMAIN paths
        /\ \E b \in 1..(c - 1) :
              calls[b].uid = calls[c].uid /\ calls[b].how = "created"

====
